---- MODULE Spec2Model ----
(***************************************************************************)
(* imCmp: near-duplicate image curation.                                   *)
(*                                                                         *)
(* main.py    get_images, get_pairs, similarity (its target size; the      *)
(*            score itself is a black box),                                *)
(*            sorted(zip(pairs, scores)), BackEnd(scored_pairs)            *)
(* backend.py BackEnd: the interactive selection session                   *)
(*                                                                         *)
(* Spec follows main(): the argument check, get_images, get_pairs, the      *)
(* scoring loop, sorted(), the construction of the BackEnd, and then the   *)
(* calls of the BackEnd's slots (select, next, toggle_image,               *)
(* load_left_image, load_right_image, show_discarded) that the user        *)
(* interface makes while the application runs.  SpecSimilarity is one call *)
(* of similarity() up to its cv2.resize calls, on shapes and resolutions   *)
(* drawn from small sets.                                                  *)
(*                                                                         *)
(* Scores are abstract integer levels 1..MaxScore (only their order is     *)
(* used by the program, in sorted()); the score display string is not      *)
(* modelled.  Aspect ratios are exact rationals: every image of the        *)
(* fixture has a ratio and every tolerance a value that binary floating    *)
(* point represents exactly, so the float comparison of get_pairs and the  *)
(* rational comparison below agree on every input enumerated here.         *)
(***************************************************************************)
EXTENDS Integers, Sequences, FiniteSets, TLC

(***************************************************************************)
(* Bounds.                                                                 *)
(***************************************************************************)
\* longest list of pairs that is scored and ranked
MaxPairs == 3
\* number of score levels
MaxScore == 2
\* longest list of directory arguments
MaxDirs == 2
\* how far next() is followed past the end of the list
MaxOver == 1
\* largest image width given to similarity()
MaxDim == 4
\* largest resolution given to similarity()
MaxRes == 8

\* default of --resolution
DefaultResolution == 100

(***************************************************************************)
(* The file system the runs work on.                                       *)
(***************************************************************************)
Path(d, n) == [parent |-> d, name |-> n]

A == Path("d1", "a.png")
B == Path("d1", "b.GIF")
C == Path("d2", "c.jpg")

AllDirs == {"d1", "d2"}

\* what Path.iterdir() yields: entries of a directory, in no order
iterdir(d) ==
    IF d = "d1" THEN {A, B, Path("d1", "notes.txt"), Path("d1", "sub.png")}
    ELSE {C, Path("d2", "thumbs.db")}

\* "sub.png" is a directory
is_file(p) == p.name # "sub.png"

suffix_lower(p) ==
    CASE p.name = "a.png" -> ".png"
      [] p.name = "b.GIF" -> ".gif"
      [] p.name = "c.jpg" -> ".jpg"
      [] p.name = "sub.png" -> ".png"
      [] p.name = "notes.txt" -> ".txt"
      [] OTHER -> ".db"

\* the order of str comparison on the names of the fixture
NameOrder == <<"a.png", "b.GIF", "c.jpg", "notes.txt", "sub.png", "thumbs.db">>

NameRank(n) == CHOOSE k \in 1..Len(NameOrder) : NameOrder[k] = n

DirRank(d) == IF d = "d1" THEN 1 ELSE 2

\* Path.__lt__: by parts
PathLess(p, q) ==
    \/ DirRank(p.parent) < DirRank(q.parent)
    \/ p.parent = q.parent /\ NameRank(p.name) < NameRank(q.name)

Images == {A, B, C}

\* PIL's im.size = (width, height)
ImageSize(p) ==
    CASE p = A -> <<200, 200>>
      [] p = B -> <<100, 100>>
      [] OTHER -> <<300, 200>>

\* PIL's im.format
ImageFormat(p) ==
    CASE p = A -> "PNG"
      [] p = B -> "GIF"
      [] OTHER -> "JPEG"

IMAGE_EXTENSIONS == {".jpg", ".png", ".gif", ".webp"}

VARIABLES
    \* ---- main() ----
    pc,            \* position in main()
    dirs,          \* args.dirs
    cross,         \* args.cross
    tolerance,     \* args.tolerance, in quarters: 2 is 0.5
    images,        \* get_images(dirs)
    pairs,         \* get_pairs: pairs, then main's pairs
    ar_cache,      \* get_pairs: ar_cache
    taken,         \* get_pairs: combinations the for loop has taken
    scores,        \* similarity of each pair
    exit_code,     \* sys.exit status, 0 while running
    \* ---- similarity() ----
    resolution,    \* resolution
    shape1,        \* im1.shape after imdecode: <<h1, w1>>
    shape2,        \* im2.shape after imdecode: <<h2, w2>>
    target,        \* <<w, h>> given to cv2.resize, <<>> before
    \* ---- BackEnd ----
    scored_pairs,  \* self._scoorangeRed_pairs: <<<<path1, path2>>, score>>
    discarded,     \* self._discarded
    idx,           \* self._idx
    left_image,    \* self._left_image
    right_image,   \* self._right_image
    image,         \* self._image
    path1,         \* self._path1: parts left after the common prefix
    path2,         \* self._path2
    stats1,        \* self._stats1: <<colour, text>> tokens
    stats2,        \* self._stats2
    left,          \* self._left
    progress,      \* self._progress: <<numerator, denominator>>
    quit,          \* QGuiApplication.quit() was called
    \* ---- the file system ----
    files,         \* images still at their own path
    quarantine,    \* images moved to <parent>/.discarded/<name>
    \* ---- history ----
    moves,         \* number of successful renames of each image
    last_call,     \* the slot called last
    calls,         \* select() and next() calls that were made while a pair
                   \* was presented and returned without raising
    \* ---- output ----
    printed        \* lines the slot called last wrote to stdout

sim_vars == <<resolution, shape1, shape2, target>>

main_vars == <<pc, dirs, cross, tolerance, images, pairs, ar_cache, taken,
              scores, exit_code, sim_vars>>

obj_vars == <<discarded, idx, left_image, right_image, image, path1, path2,
              stats1, stats2, left, progress, quit>>

fs_vars == <<files, quarantine, moves>>

vars == <<main_vars, scored_pairs, obj_vars, fs_vars, last_call, calls,
          printed>>

(***************************************************************************)
(* BackEnd                                                                 *)
(***************************************************************************)
NoPath == Path("", "")

\* the attributes of a BackEnd and the file system, as one value; raised is
\* the exception propagating out of the running call ("none": no exception)
Self ==
    [scored_pairs |-> scored_pairs, discarded |-> discarded, idx |-> idx,
     left_image |-> left_image, right_image |-> right_image, image |-> image,
     path1 |-> path1, path2 |-> path2, stats1 |-> stats1, stats2 |-> stats2,
     left |-> left, progress |-> progress, quit |-> quit,
     files |-> files, quarantine |-> quarantine, moves |-> moves,
     raised |-> "none"]

\* the attributes __init__ has set before it calls _load_pair; the
\* attributes _load_pair sets do not exist yet (has_view = FALSE below)
Fresh(sp) ==
    [scored_pairs |-> sp, discarded |-> {}, idx |-> 0,
     left_image |-> NoPath, right_image |-> NoPath, image |-> NoPath,
     path1 |-> <<>>, path2 |-> <<>>, stats1 |-> <<>>, stats2 |-> <<>>,
     left |-> FALSE, progress |-> <<0, 1>>, quit |-> FALSE,
     files |-> Images, quarantine |-> {}, moves |-> [p \in Images |-> 0],
     raised |-> "none"]

Become(s) ==
    /\ discarded' = s.discarded
    /\ idx' = s.idx
    /\ left_image' = s.left_image
    /\ right_image' = s.right_image
    /\ image' = s.image
    /\ path1' = s.path1
    /\ path2' = s.path2
    /\ stats1' = s.stats1
    /\ stats2' = s.stats2
    /\ left' = s.left
    /\ progress' = s.progress
    /\ quit' = s.quit
    /\ files' = s.files
    /\ quarantine' = s.quarantine
    /\ moves' = s.moves

\* Path.parts
parts(p) == <<p.parent, p.name>>

\* os.path.commonprefix on two sequences of parts: length of the common prefix
RECURSIVE commonprefix(_, _)
commonprefix(x, y) ==
    IF x = <<>> \/ y = <<>> \/ Head(x) # Head(y) THEN 0
    ELSE 1 + commonprefix(Tail(x), Tail(y))

\* path.parts[len(prefix.parts):]; the empty sequence stands for Path() = "."
strip_prefix(p, q) ==
    SubSeq(parts(p), commonprefix(parts(p), parts(q)) + 1, Len(parts(p)))

\* str.replace on a stats string: the colour names occur only as colours
replace(stats, old, new) ==
    [k \in 1..Len(stats) |->
        IF stats[k][1] = old THEN <<new, stats[k][2]>> ELSE stats[k]]

\* lines 238-250: the size part of stats1 and stats2
dim_stats(p1, p2) ==
    LET w1 == ImageSize(p1)[1]
        h1 == ImageSize(p1)[2]
        w2 == ImageSize(p2)[1]
        h2 == ImageSize(p2)[2]
    IN  IF w1 > w2 /\ h1 > h2
          THEN << <<"forestGreen", ImageSize(p1)>>, <<"orangeRed", ImageSize(p2)>> >>
        ELSE IF w2 > w1 /\ h2 > h1
          THEN << <<"crimson", ImageSize(p1)>>, <<"limeGreen", ImageSize(p2)>> >>
        ELSE IF w1 # w2 \/ h1 # h2
          THEN << <<"royalBlue", ImageSize(p1)>>, <<"dodgerBlue", ImageSize(p2)>> >>
        ELSE << <<"", ImageSize(p1)>>, <<"", ImageSize(p2)>> >>

\* lines 252-264: the format part of stats1 and stats2
fmt_stats(p1, p2) ==
    LET f1 == ImageFormat(p1)
        f2 == ImageFormat(p2)
    IN  IF f1 = "PNG" /\ f2 = "JPEG"
          THEN << <<"forestGreen", f1>>, <<"orangeRed", f2>> >>
        ELSE IF f1 = "JPEG" /\ f2 = "PNG"
          THEN << <<"crimson", f1>>, <<"limeGreen", f2>> >>
        ELSE IF f1 # f2
          THEN << <<"royalBlue", f1>>, <<"dodgerBlue", f2>> >>
        ELSE << <<"", f1>>, <<"", f2>> >>

\* show_pair as it would be if the progress were idx / len
show_pair_progress_idx(s, i) ==
    LET p1 == s.scored_pairs[i + 1][1][1]
        p2 == s.scored_pairs[i + 1][1][2]
    IN  [s EXCEPT
            !.left_image = p1,
            !.right_image = p2,
            !.image = p1,
            !.path1 = strip_prefix(p1, p2),
            !.path2 = strip_prefix(p2, p1),
            !.stats1 = <<dim_stats(p1, p2)[1], fmt_stats(p1, p2)[1]>>,
            !.stats2 = <<dim_stats(p1, p2)[2], fmt_stats(p1, p2)[2]>>,
            !.left = TRUE,
            !.progress = <<i, Len(s.scored_pairs)>>]

\* _load_pair past its two early returns: lines 219-268
show_pair(s, i) ==
    LET p1 == s.scored_pairs[i + 1][1][1]
        p2 == s.scored_pairs[i + 1][1][2]
    IN  [s EXCEPT
            !.left_image = p1,
            !.right_image = p2,
            !.image = p1,
            !.path1 = strip_prefix(p1, p2),
            !.path2 = strip_prefix(p2, p1),
            !.stats1 = <<dim_stats(p1, p2)[1], fmt_stats(p1, p2)[1]>>,
            !.stats2 = <<dim_stats(p1, p2)[2], fmt_stats(p1, p2)[2]>>,
            !.left = TRUE,
            !.progress = <<i + 1, Len(s.scored_pairs)>>]

\* moot as it would be if only pairs with both paths discarded were skipped
moot_both(s, i) ==
    /\ s.scored_pairs[i + 1][1][1] \in s.discarded
    /\ s.scored_pairs[i + 1][1][2] \in s.discarded

\* whether either path of pair i is in the discarded set: line 215
moot(s, i) ==
    \/ s.scored_pairs[i + 1][1][1] \in s.discarded
    \/ s.scored_pairs[i + 1][1][2] \in s.discarded

RECURSIVE _load_pair(_, _)
RECURSIVE next(_)

\* next as it would be if skipping a pair also discarded its second image
next_discarding(s) ==
    _load_pair([s EXCEPT !.idx = s.idx + 1,
                         !.discarded =
                            IF s.idx < Len(s.scored_pairs)
                              THEN s.discarded \cup {s.scored_pairs[s.idx + 1][1][2]}
                            ELSE s.discarded],
               s.idx + 1)

\* BackEnd.next
next(s) == _load_pair([s EXCEPT !.idx = s.idx + 1], s.idx + 1)

\* BackEnd._load_pair
_load_pair(s, i) ==
    IF i >= Len(s.scored_pairs) THEN [s EXCEPT !.quit = TRUE]
    ELSE IF moot(s, i) THEN next(s)
    ELSE show_pair(s, i)

\* BackEnd.__init__
BackEnd(sp) == _load_pair(Fresh(sp), 0)

\* the attributes _load_pair sets exist once a pair has been shown, and the
\* first pair of a non-empty list is always shown (nothing is discarded yet)
has_view(s) == Len(s.scored_pairs) > 0

\* the image select() discards: lines 170-177
victim(s) ==
    IF s.left THEN s.scored_pairs[s.idx + 1][1][2]
    ELSE s.scored_pairs[s.idx + 1][1][1]

\* discard_add as it would be if the set were replaced instead of extended
discard_assign(s, p) == [s EXCEPT !.discarded = {p}]

\* self._discarded.add(path)
discard_add(s, p) == [s EXCEPT !.discarded = s.discarded \cup {p}]

\* mkdir(exist_ok=True), then rename: with ok the file is moved; otherwise
\* one of the two raised (the source is missing, permissions, a read-only
\* volume) and nothing moved
quarantine_move(s, p, ok) ==
    IF ok /\ p \in s.files
      THEN [s EXCEPT !.files = s.files \ {p},
                     !.quarantine = s.quarantine \cup {p},
                     !.moves = [s.moves EXCEPT ![p] = @ + 1]]
    ELSE [s EXCEPT !.raised = "OSError"]

\* select as it would be if it did not call next() after the move
select_staying(s, ok) ==
    IF s.idx >= Len(s.scored_pairs) THEN [s EXCEPT !.raised = "IndexError"]
    ELSE quarantine_move(discard_add(s, victim(s)), victim(s), ok)

\* BackEnd.select
select(s, ok) ==
    IF s.idx >= Len(s.scored_pairs) THEN [s EXCEPT !.raised = "IndexError"]
    ELSE LET t == quarantine_move(discard_add(s, victim(s)), victim(s), ok)
         IN  IF t.raised # "none" THEN t ELSE next(t)

\* BackEnd.load_left_image
load_left_image(s) ==
    IF ~has_view(s) THEN [s EXCEPT !.raised = "AttributeError"]
    ELSE [s EXCEPT
            !.image = s.left_image,
            !.stats1 = replace(replace(s.stats1,
                          "limeGreen", "forestGreen"),
                          "orangeRed", "crimson"),
            !.stats2 = replace(replace(s.stats2,
                          "forestGreen", "limeGreen"),
                          "crimson", "orangeRed"),
            !.left = TRUE]

\* BackEnd.load_right_image
load_right_image(s) ==
    IF ~has_view(s) THEN [s EXCEPT !.raised = "AttributeError"]
    ELSE [s EXCEPT
            !.image = s.right_image,
            !.stats1 = replace(replace(s.stats1,
                          "forestGreen", "limeGreen"),
                          "crimson", "orangeRed"),
            !.stats2 = replace(replace(s.stats2,
                          "limeGreen", "forestGreen"),
                          "orangeRed", "crimson"),
            !.left = FALSE]

\* toggle_image as it would be if it left the royalBlue/dodgerBlue pair alone
toggle_green_red(s) ==
    IF ~has_view(s) THEN [s EXCEPT !.raised = "AttributeError"]
    ELSE IF s.left THEN load_right_image(s)
    ELSE load_left_image(s)

\* BackEnd.toggle_image
toggle_image(s) ==
    IF ~has_view(s) THEN [s EXCEPT !.raised = "AttributeError"]
    ELSE IF s.left
      THEN [s EXCEPT
              !.image = s.right_image,
              !.stats1 = replace(replace(replace(s.stats1,
                            "forestGreen", "limeGreen"),
                            "crimson", "orangeRed"),
                            "royalBlue", "dodgerBlue"),
              !.stats2 = replace(replace(replace(s.stats2,
                            "limeGreen", "forestGreen"),
                            "orangeRed", "crimson"),
                            "dodgerBlue", "royalBlue"),
              !.left = FALSE]
    ELSE [s EXCEPT
              !.image = s.left_image,
              !.stats1 = replace(replace(replace(s.stats1,
                            "limeGreen", "forestGreen"),
                            "orangeRed", "crimson"),
                            "dodgerBlue", "royalBlue"),
              !.stats2 = replace(replace(replace(s.stats2,
                            "forestGreen", "limeGreen"),
                            "crimson", "orangeRed"),
                            "royalBlue", "dodgerBlue"),
              !.left = TRUE]

InitObj(s) ==
    /\ discarded = s.discarded
    /\ idx = s.idx
    /\ left_image = s.left_image
    /\ right_image = s.right_image
    /\ image = s.image
    /\ path1 = s.path1
    /\ path2 = s.path2
    /\ stats1 = s.stats1
    /\ stats2 = s.stats2
    /\ left = s.left
    /\ progress = s.progress
    /\ quit = s.quit
    /\ files = s.files
    /\ quarantine = s.quarantine
    /\ moves = s.moves

(***************************************************************************)
(* main.py                                                                 *)
(***************************************************************************)
\* sorted() of a set of paths no two of which are equal
RECURSIVE sorted_paths(_)
sorted_paths(S) ==
    IF S = {} THEN <<>>
    ELSE LET m == CHOOSE x \in S : \A y \in S \ {x} : PathLess(x, y)
         IN  <<m>> \o sorted_paths(S \ {m})

\* the list comprehension of line 35
image_files(d) ==
    {f \in iterdir(d) : is_file(f) /\ suffix_lower(f) \in IMAGE_EXTENSIONS}

\* get_images: lines 32-37
RECURSIVE get_images(_)
get_images(ds) ==
    IF ds = <<>> THEN <<>>
    ELSE get_images(SubSeq(ds, 1, Len(ds) - 1))
            \o sorted_paths(image_files(ds[Len(ds)]))

\* itertools.combinations(range(n), 2) from <<i, j>> on, as positions 1..n
RECURSIVE combinations_from(_, _, _)
combinations_from(n, i, j) ==
    IF i >= n THEN <<>>
    ELSE IF j > n THEN combinations_from(n, i + 1, i + 2)
    ELSE <<(<<i, j>>)>> \o combinations_from(n, i, j + 1)

combinations(n) == combinations_from(n, 1, 2)

\* im.size[0] / im.size[1], as <<numerator, denominator>>
aspect_ratio(p) == <<ImageSize(p)[1], ImageSize(p)[2]>>

\* lines 69-74: the cache after the ratio of p is looked up
cached(cache, p) ==
    IF p \in DOMAIN cache THEN cache
    ELSE [q \in DOMAIN cache \cup {p} |->
            IF q = p THEN aspect_ratio(p) ELSE cache[q]]

Abs(x) == IF x < 0 THEN -x ELSE x

\* exceeds as it would be with >= for >
exceeds_or_equals(r1, r2, t) ==
    4 * Abs(r1[1] * r2[2] - r2[1] * r1[2]) >= t * r1[2] * r2[2]

\* line 77: abs(r1 - r2) > tolerance, the tolerance t in quarters
exceeds(r1, r2, t) ==
    4 * Abs(r1[1] * r2[2] - r2[1] * r1[2]) > t * r1[2] * r2[2]

\* one iteration of the loop of get_pairs, on the combination at positions
\* ij: lines 63-80
get_pairs_step(st, imgs, x, t, ij) ==
    LET p1 == imgs[ij[1]]
        p2 == imgs[ij[2]]
        c == cached(cached(st.ar_cache, p1), p2)
    IN  IF x /\ p1.parent = p2.parent THEN st
        ELSE IF exceeds(c[p1], c[p2], t) THEN [st EXCEPT !.ar_cache = c]
        ELSE [pairs |-> Append(st.pairs, <<p1, p2>>), ar_cache |-> c]

\* zip(pairs, scores)
zip(ps, sc) == [k \in 1..Len(ps) |-> <<ps[k], sc[k]>>]

\* insert_sorted as it would be for a sort that puts e before its equals
RECURSIVE insert_before_equals(_, _)
insert_before_equals(out, e) ==
    IF out = <<>> THEN <<e>>
    ELSE IF Head(out)[2] > e[2]
      THEN <<Head(out)>> \o insert_before_equals(Tail(out), e)
    ELSE <<e>> \o out

\* where a stable descending sort puts e in the sorted list out: behind
\* every element whose score is not smaller
RECURSIVE insert_sorted(_, _)
insert_sorted(out, e) ==
    IF out = <<>> THEN <<e>>
    ELSE IF Head(out)[2] >= e[2] THEN <<Head(out)>> \o insert_sorted(Tail(out), e)
    ELSE <<e>> \o out

\* sorted(xs, key=lambda x: x[1], reverse=True): line 165
RECURSIVE sorted_by_score(_)
sorted_by_score(xs) ==
    IF xs = <<>> THEN <<>>
    ELSE insert_sorted(sorted_by_score(SubSeq(xs, 1, Len(xs) - 1)), xs[Len(xs)])

\* the scores similarity() can give the pairs: it is a function of the two
\* paths, so equal pairs get equal scores.  Only the order of the scores is
\* used (by sorted()), so of the tables that order the pairs alike only the
\* one that uses the levels from 1 upwards without a gap is enumerated.
ScoreTables(ps) ==
    {sc \in [1..Len(ps) -> 1..MaxScore] :
        /\ \A k, l \in 1..Len(ps) : ps[k] = ps[l] => sc[k] = sc[l]
        /\ \A v \in 2..MaxScore :
              (\E k \in 1..Len(ps) : sc[k] = v)
                 => (\E k \in 1..Len(ps) : sc[k] = v - 1)}

\* similarity, lines 108-119: the size both images are resized to.  avg_ar
\* is n / d; int() of a positive float is its floor.  The shapes enumerated
\* below have heights that are powers of two, so that w / h, the mean and
\* resolution * avg_ar are exact in binary floating point and the quotient
\* resolution / avg_ar has the floor of the exact quotient.
target_size_rounding(h1, w1, h2, w2, res) ==
    LET n == w1 * h2 + w2 * h1
        d == 2 * h1 * h2
    IN  IF n < d THEN <<(2 * res * n + d) \div (2 * d), res>>
        ELSE <<res, (2 * res * d + n) \div (2 * n)>>

target_size(h1, w1, h2, w2, res) ==
    LET n == w1 * h2 + w2 * h1
        d == 2 * h1 * h2
    IN  IF n < d THEN <<(res * n) \div d, res>>
        ELSE <<res, (res * d) \div n>>

\* BackEnd.show_discarded: the lines it prints, a path as its parts; sorted()
\* is on the set of paths.  It is here, below sorted_paths, only because it
\* uses it.
show_discarded(s) ==
    IF Cardinality(s.discarded) = 0 THEN <<>>
    ELSE <<<<"Discarded Images">>>>
           \o [k \in 1..Cardinality(s.discarded) |->
                 parts(sorted_paths(s.discarded)[k])]

(***************************************************************************)
(* Spec                                                                    *)
(***************************************************************************)
DirLists == UNION {[1..n -> AllDirs] : n \in 1..MaxDirs}

Tolerances == {0, 1, 2}

Init ==
    /\ pc = "args"
    /\ dirs \in DirLists
    /\ cross \in BOOLEAN
    /\ tolerance \in Tolerances
    /\ images = <<>>
    /\ pairs = <<>>
    /\ ar_cache = <<>>
    /\ taken = 0
    /\ scores = <<>>
    /\ exit_code = 0
    /\ scored_pairs = <<>>
    /\ InitObj(Fresh(<<>>))
    /\ last_call = "none"
    /\ calls = 0
    /\ printed = <<>>
    /\ resolution = DefaultResolution
    /\ shape1 = <<>>
    /\ shape2 = <<>>
    /\ target = <<>>

\* CheckArgs as it would be if the check asked for one directory only
CheckArgsAtLeastOne ==
    /\ pc = "args"
    /\ IF cross /\ Len(dirs) < 1
         THEN pc' = "exit" /\ exit_code' = -1
         ELSE pc' = "get_images" /\ exit_code' = exit_code
    /\ UNCHANGED <<dirs, cross, tolerance, images, pairs, ar_cache, taken, scores,
                   scored_pairs, obj_vars, fs_vars, last_call, calls,
                   printed, sim_vars>>

\* lines 139-142
CheckArgs ==
    /\ pc = "args"
    /\ IF cross /\ Len(dirs) < 2
         THEN pc' = "exit" /\ exit_code' = -1
         ELSE pc' = "get_images" /\ exit_code' = exit_code
    /\ UNCHANGED <<dirs, cross, tolerance, images, pairs, ar_cache, taken, scores,
                   scored_pairs, obj_vars, fs_vars, last_call, calls,
                   printed, sim_vars>>

\* lines 145-146, and the entry of get_pairs: lines 61-62
GetImages ==
    /\ pc = "get_images"
    /\ images' = get_images(dirs)
    /\ pairs' = <<>>
    /\ ar_cache' = <<>>
    /\ taken' = 0
    /\ pc' = "get_pairs"
    /\ UNCHANGED <<dirs, cross, tolerance, scores, exit_code, scored_pairs,
                   obj_vars, fs_vars, last_call, calls,
                   printed, sim_vars>>

\* get_pairs, one iteration of its loop: lines 63-80
GetPairsStep ==
    /\ pc = "get_pairs"
    /\ taken < Len(combinations(Len(images)))
    /\ LET st == get_pairs_step([pairs |-> pairs, ar_cache |-> ar_cache],
                                images, cross, tolerance,
                                combinations(Len(images))[taken + 1])
       IN  pairs' = st.pairs /\ ar_cache' = st.ar_cache
    /\ taken' = taken + 1
    /\ UNCHANGED <<pc, dirs, cross, tolerance, images, scores, exit_code,
                   scored_pairs, obj_vars, fs_vars, last_call, calls,
                   printed, sim_vars>>

\* get_pairs returns: line 82, and line 149
GetPairs ==
    /\ pc = "get_pairs"
    /\ taken = Len(combinations(Len(images)))
    /\ pc' = "similarity"
    /\ UNCHANGED <<dirs, cross, tolerance, images, pairs, ar_cache, taken, scores,
                   exit_code, scored_pairs, obj_vars, fs_vars, last_call, calls,
                   printed, sim_vars>>

\* lines 152-162; runs with more than MaxPairs pairs are not followed
Similarity ==
    /\ pc = "similarity"
    /\ Len(pairs) <= MaxPairs
    /\ scores' \in ScoreTables(pairs)
    /\ pc' = "sorted"
    /\ UNCHANGED <<dirs, cross, tolerance, images, pairs, ar_cache, taken,
                   exit_code, scored_pairs, obj_vars, fs_vars, last_call, calls,
                   printed, sim_vars>>

\* line 165
Sorted ==
    /\ pc = "sorted"
    /\ scored_pairs' = sorted_by_score(zip(pairs, scores))
    /\ pc' = "BackEnd"
    /\ UNCHANGED <<dirs, cross, tolerance, images, pairs, ar_cache, taken, scores,
                   exit_code, obj_vars, fs_vars, last_call, calls,
                   printed, sim_vars>>

\* line 170
Construct ==
    /\ pc = "BackEnd"
    /\ Become(BackEnd(scored_pairs))
    /\ last_call' = "__init__"
    /\ pc' = "exec"
    /\ UNCHANGED <<dirs, cross, tolerance, images, pairs, ar_cache, taken, scores,
                   exit_code, scored_pairs, calls, printed, sim_vars>>

\* the user interface calls backEnd.select()
DoSelect ==
    /\ pc = "exec"
    /\ \E ok \in BOOLEAN :
          /\ Become(select(Self, ok))
          /\ calls' = IF select(Self, ok).raised = "none" THEN calls + 1
                      ELSE calls
    /\ last_call' = "select"
    /\ printed' = <<>>
    /\ UNCHANGED <<main_vars, scored_pairs>>

\* the user interface calls backEnd.next(); calls past the end of the list
\* are followed MaxOver deep
DoNext ==
    /\ pc = "exec"
    /\ idx < Len(scored_pairs) + MaxOver
    /\ Become(next(Self))
    /\ calls' = IF idx < Len(scored_pairs) THEN calls + 1 ELSE calls
    /\ last_call' = "next"
    /\ printed' = <<>>
    /\ UNCHANGED <<main_vars, scored_pairs>>

\* the user interface calls backEnd.toggle_image()
DoToggle ==
    /\ pc = "exec"
    /\ Become(toggle_image(Self))
    /\ last_call' = "toggle_image"
    /\ printed' = <<>>
    /\ UNCHANGED <<main_vars, scored_pairs, calls>>

\* the user interface calls backEnd.load_left_image()
DoLoadLeft ==
    /\ pc = "exec"
    /\ Become(load_left_image(Self))
    /\ last_call' = "load_left_image"
    /\ printed' = <<>>
    /\ UNCHANGED <<main_vars, scored_pairs, calls>>

\* the user interface calls backEnd.load_right_image()
DoLoadRight ==
    /\ pc = "exec"
    /\ Become(load_right_image(Self))
    /\ last_call' = "load_right_image"
    /\ printed' = <<>>
    /\ UNCHANGED <<main_vars, scored_pairs, calls>>

\* the user interface calls backEnd.show_discarded()
DoShowDiscarded ==
    /\ pc = "exec"
    /\ printed' = show_discarded(Self)
    /\ last_call' = "show_discarded"
    /\ UNCHANGED <<main_vars, scored_pairs, obj_vars, fs_vars, calls>>

\* image heights and widths, and the resolutions, similarity() is called with
Heights == {1, 2, 4}

Widths == 1..MaxDim

Resolutions == 1..MaxRes

\* a call of similarity() on two decoded images
SimInit ==
    /\ pc = "imdecode"
    /\ dirs = <<"d1">>
    /\ cross = FALSE
    /\ tolerance = 0
    /\ images = <<>>
    /\ pairs = <<>>
    /\ ar_cache = <<>>
    /\ taken = 0
    /\ scores = <<>>
    /\ exit_code = 0
    /\ scored_pairs = <<>>
    /\ InitObj(Fresh(<<>>))
    /\ last_call = "none"
    /\ calls = 0
    /\ printed = <<>>
    /\ resolution \in Resolutions
    /\ shape1 \in Heights \X Widths
    /\ shape2 \in Heights \X Widths
    /\ target = <<>>

\* lines 108-123, up to the two cv2.resize calls
Resize ==
    /\ pc = "imdecode"
    /\ target' = target_size(shape1[1], shape1[2], shape2[1], shape2[2],
                             resolution)
    /\ pc' = "resize"
    /\ UNCHANGED <<dirs, cross, tolerance, images, pairs, ar_cache, taken, scores,
                   exit_code, resolution, shape1, shape2, scored_pairs,
                   obj_vars, fs_vars, last_call, calls, printed>>

SimNext == Resize

SpecSimilarity == SimInit /\ [][SimNext]_vars

Next ==
    \/ CheckArgs
    \/ GetImages
    \/ GetPairsStep
    \/ GetPairs
    \/ Similarity
    \/ Sorted
    \/ Construct
    \/ DoSelect
    \/ DoNext
    \/ DoToggle
    \/ DoLoadLeft
    \/ DoLoadRight
    \/ DoShowDiscarded

Spec == Init /\ [][Next]_vars

(***************************************************************************)
(* Properties                                                              *)
(***************************************************************************)
\* the session of the specification: Presenting(idx) or Finished
Presenting == pc = "exec" /\ idx < Len(scored_pairs)

Finished == pc = "exec" /\ idx >= Len(scored_pairs)

\* the pair at 0-based index j of the ranked list
PairAt(j) == scored_pairs[j + 1][1]

\* both images of pair j are outside the set D
Live(j, D) == PairAt(j)[1] \notin D /\ PairAt(j)[2] \notin D

\* the image of the presented pair that is not primary
NonPrimary == IF left THEN PairAt(idx)[2] ELSE PairAt(idx)[1]

\* a step that is a call of select() / next() while a pair is presented
SelectCall == Presenting /\ last_call' = "select" /\ vars' # vars

NextCall == Presenting /\ last_call' = "next" /\ vars' # vars

view_vars == <<left_image, right_image, image, path1, path2, stats1, stats2,
               left, progress>>

Min(S) == CHOOSE x \in S : \A y \in S : x <= y

\* C1: while a pair is presented, neither of its images is in the discarded
\* set.
C1_PresentedNotDiscarded ==
    Presenting => Live(idx, discarded)

\* C2: a select() whose quarantine move fails (no file is moved) leaves the
\* discarded set and the cursor as they were.
C2_FailedSelectChangesNothing ==
    [][(SelectCall /\ moves' = moves)
          => (discarded' = discarded /\ idx' = idx)]_vars

\* C3: each select() while a pair is presented adds exactly the non-primary
\* image to the discarded set, moves exactly that image to quarantine once,
\* and advances the cursor; no image is moved twice.
C3_SelectDiscardsOnce ==
    [][/\ SelectCall
            => /\ NonPrimary \notin discarded
               /\ discarded' = discarded \cup {NonPrimary}
               /\ moves' = [moves EXCEPT ![NonPrimary] = @ + 1]
               /\ quarantine' = quarantine \cup {NonPrimary}
               /\ idx' > idx
       /\ \A p \in Images : moves'[p] <= 1]_vars

\* C4: a load (at construction from index 0, after select or next from the
\* index behind the cursor) presents the pair at the smallest index from
\* there on whose images are both outside the discarded set, and ends the
\* session exactly when there is no such index.
C4_LoadFirstLive ==
    [][LET loaded == \/ pc = "BackEnd" /\ pc' = "exec"
                     \/ pc = "exec" /\ idx' # idx
           start == IF pc = "exec" THEN idx + 1 ELSE 0
           live == {j \in start..(Len(scored_pairs) - 1) : Live(j, discarded')}
       IN  loaded =>
             IF live = {}
               THEN idx' >= Len(scored_pairs) /\ quit'
             ELSE /\ idx' = Min(live)
                  /\ left_image' = PairAt(idx')[1]
                  /\ right_image' = PairAt(idx')[2]
                  /\ ~quit']_vars

\* C4, the scenario: on <<(A,B), (A,C), (B,C)>>, A was kept twice, B and C
\* are discarded, (B,C) was skipped and the session is finished
C4_ScenarioB ==
    /\ Finished
    /\ [k \in 1..Len(scored_pairs) |-> scored_pairs[k][1]]
          = << <<A, B>>, <<A, C>>, <<B, C>> >>
    /\ discarded = {B, C}
    /\ quarantine = {B, C}
    /\ last_call = "select"
    /\ idx = 3
    /\ right_image = C

\* C5: the two images of every pair get_pairs returns differ, and with cross
\* set they have different parent directories.
C5_PairsDistinct ==
    \A k \in 1..Len(pairs) :
        /\ pairs[k][1] # pairs[k][2]
        /\ cross => pairs[k][1].parent # pairs[k][2].parent

\* the positions <<i, j>>, i before j, of the images that pass both filters
Survivors ==
    {ij \in (1..Len(images)) \X (1..Len(images)) :
        /\ ij[1] < ij[2]
        /\ ~(cross /\ images[ij[1]].parent = images[ij[2]].parent)
        /\ LET s1 == ImageSize(images[ij[1]])
               s2 == ImageSize(images[ij[2]])
           IN  4 * Abs(s1[1] * s2[2] - s2[1] * s1[2]) <= tolerance * s1[2] * s2[2]}

LexLess(a, b) == a[1] < b[1] \/ (a[1] = b[1] /\ a[2] < b[2])

\* C6: get_pairs returns the 2-combinations of the image list that pass both
\* filters (a ratio difference equal to the tolerance passes), the earlier
\* image first, in the order of enumeration.
C6_PairsAreSurvivors ==
    pc \in {"similarity", "sorted", "BackEnd", "exec"} =>
        /\ Len(pairs) = Cardinality(Survivors)
        /\ \A ij \in Survivors :
              pairs[Cardinality({o \in Survivors : LexLess(o, ij)}) + 1]
                 = <<images[ij[1]], images[ij[2]]>>

\* C6: a pair at the tolerance boundary (1.5 - 1.0 = 0.5) is returned, and
\* another run filters a pair out
C6_BoundaryPair ==
    /\ pc = "similarity"
    /\ tolerance = 2
    /\ ~cross
    /\ \E k \in 1..Len(pairs) : pairs[k] = <<A, C>>
    /\ Len(images) = 3

RECURSIVE with_score(_, _)
with_score(xs, v) ==
    IF xs = <<>> THEN <<>>
    ELSE IF Head(xs)[2] = v THEN <<Head(xs)>> \o with_score(Tail(xs), v)
    ELSE with_score(Tail(xs), v)

\* C7: the ranked list holds the scored pairs, all of them and no other,
\* sorted by score non-increasing, pairs of equal score in the order the
\* pair generator gave them.
C7_RankedStableSorted ==
    pc \in {"BackEnd", "exec"} =>
        /\ Len(scored_pairs) = Len(pairs)
        /\ \A k \in 1..(Len(scored_pairs) - 1) :
              scored_pairs[k][2] >= scored_pairs[k + 1][2]
        /\ \A v \in 1..MaxScore :
              with_score(scored_pairs, v) = with_score(zip(pairs, scores), v)

\* C7: a list the sort had to reorder, with a tie between different pairs
C7_ReorderedWithTie ==
    /\ pc = "BackEnd"
    /\ Len(pairs) = 3
    /\ scores[1] < scores[2]
    /\ scores[2] = scores[3]
    /\ pairs[2] # pairs[3]

\* C8: once the session is finished, no call changes the cursor, the
\* discarded set or a presented field, and none moves a file.
C8_FinishedIsTerminal ==
    [][Finished => UNCHANGED <<idx, discarded, view_vars, fs_vars>>]_vars

\* C9: the discarded set starts empty, never loses an image, and only
\* select() adds to it.
C9_DiscardedGrows ==
    /\ discarded = {}
    /\ [][/\ discarded \subseteq discarded'
          /\ discarded' # discarded => last_call' = "select"]_vars

\* C9: two images are discarded and calls other than select() followed
C9_DiscardedKept ==
    /\ Cardinality(discarded) = 2
    /\ last_call = "toggle_image"
    /\ Presenting

\* C10: next() while a pair is presented advances the cursor, leaves the
\* discarded set alone and moves no file; the skips of moot pairs inside
\* select() and next() add nothing beyond the one image select() discards.
C10_NextDiscardsNothing ==
    [][/\ NextCall
            => /\ discarded' = discarded
               /\ UNCHANGED fs_vars
               /\ idx' > idx
       /\ (SelectCall /\ idx' > idx + 1)
            => /\ discarded' = discarded \cup {NonPrimary}
               /\ \A p \in Images \ {NonPrimary} : moves'[p] = moves[p]]_vars

\* C10: a next() that skipped a moot pair on its way to the end of the list
C10_NextSkippedMoot ==
    /\ Finished
    /\ last_call = "next"
    /\ Len(scored_pairs) = 3
    /\ idx = 3
    /\ Cardinality(discarded) = 1
    /\ quarantine = discarded
    /\ Live(1, discarded)
    /\ ~Live(2, discarded)

\* how image p compares with image q of the same pair, by size and by format
DimMark(p, q) ==
    IF ImageSize(p)[1] > ImageSize(q)[1] /\ ImageSize(p)[2] > ImageSize(q)[2]
      THEN "better"
    ELSE IF ImageSize(q)[1] > ImageSize(p)[1] /\ ImageSize(q)[2] > ImageSize(p)[2]
      THEN "worse"
    ELSE IF ImageSize(p) # ImageSize(q) THEN "different"
    ELSE "none"

FmtMark(p, q) ==
    IF ImageFormat(p) = "PNG" /\ ImageFormat(q) = "JPEG" THEN "better"
    ELSE IF ImageFormat(p) = "JPEG" /\ ImageFormat(q) = "PNG" THEN "worse"
    ELSE IF ImageFormat(p) # ImageFormat(q) THEN "different"
    ELSE "none"

\* the colour of a marking on the primary side and on the other side
Render(mark, primary) ==
    CASE mark = "better" -> IF primary THEN "forestGreen" ELSE "limeGreen"
      [] mark = "worse" -> IF primary THEN "crimson" ELSE "orangeRed"
      [] mark = "different" -> IF primary THEN "royalBlue" ELSE "dodgerBlue"
      [] OTHER -> ""

\* the annotation of image p next to image q when p has the given role
Annotation(p, q, primary) ==
    << <<Render(DimMark(p, q), primary), ImageSize(p)>>,
       <<Render(FmtMark(p, q), primary), ImageFormat(p)>> >>

\* the primary image is the one on the side the flag names, and each side's
\* annotation is its marking in the rendering of its current role
RolesConsistent ==
    /\ image = IF left THEN left_image ELSE right_image
    /\ stats1 = Annotation(left_image, right_image, left)
    /\ stats2 = Annotation(right_image, left_image, ~left)

\* a step that loads: the construction, or a call that moves the cursor
Loaded == (pc = "BackEnd" /\ pc' = "exec") \/ (pc = "exec" /\ idx' # idx)

\* C11: a load that presents a pair leaves the roles consistent (the primary
\* image is the left one exactly when the flag says left, and each side's
\* annotation carries its marking in the rendering of its role, for better,
\* worse and different, on size and on format), and every later call other
\* than load_left_image / load_right_image, toggle_image above all, keeps
\* them consistent; toggling a left-primary pair whose first image is the
\* larger makes the second image primary with its size marked worse.
C11_TogglePreservesRoles ==
    [][/\ (Loaded /\ idx' < Len(scored_pairs)) => RolesConsistent'
       /\ (/\ pc = "exec" /\ Len(scored_pairs) > 0
           /\ RolesConsistent
           /\ last_call' \notin {"load_left_image", "load_right_image"})
             => RolesConsistent'
       /\ (/\ Presenting /\ left /\ RolesConsistent
           /\ DimMark(PairAt(idx)[1], PairAt(idx)[2]) = "better"
           /\ last_call' = "toggle_image")
             => /\ image' = PairAt(idx)[2] /\ ~left'
                /\ stats2'[1] = <<Render("worse", TRUE), ImageSize(PairAt(idx)[2])>>
                /\ stats1'[1] = <<Render("better", FALSE), ImageSize(PairAt(idx)[1])>>
      ]_vars

\* the pair (A, B), A the larger, after a toggle: B is primary and marked worse
C11_ToggledToWorse ==
    /\ Presenting /\ PairAt(idx) = <<A, B>>
    /\ last_call = "toggle_image" /\ ~left /\ image = B
    /\ RolesConsistent
    /\ stats2[1][1] = "crimson" /\ stats1[1][1] = "limeGreen"
    /\ stats1[2][1] = "dodgerBlue" /\ stats2[2][1] = "royalBlue"

\* C12: with the cross flag and fewer than two directories the run ends with
\* a non-zero exit status straight after the argument check: no image has
\* been enumerated, no pair generated or scored, no session constructed and
\* no file touched.
C12_CrossNeedsTwoDirs ==
    (cross /\ Len(dirs) < 2 /\ pc # "args")
      => /\ pc = "exit" /\ exit_code # 0
         /\ images = <<>> /\ pairs = <<>> /\ ar_cache = <<>> /\ taken = 0
         /\ scores = <<>> /\ scored_pairs = <<>>
         /\ last_call = "none" /\ discarded = {}
         /\ files = Images /\ quarantine = {}

\* the run with --cross and one directory has exited
C12_ExitedOnOneDir ==
    pc = "exit" /\ cross /\ Len(dirs) = 1 /\ exit_code = -1

\* a step that is a call of show_discarded() during the session
ShowCall == pc = "exec" /\ last_call' = "show_discarded"

\* the paths a listing names, below its header line
Listed(out) == IF out = <<>> THEN <<>> ELSE Tail(out)

\* every member of D is on exactly one line and the lines ascend
ListsSorted(out, D) ==
    /\ Len(Listed(out)) = Cardinality(D)
    /\ \A p \in D :
          Cardinality({k \in 1..Len(Listed(out)) : Listed(out)[k] = parts(p)}) = 1
    /\ \A k \in 1..(Len(Listed(out)) - 1) :
          PathLess(Path(Listed(out)[k][1], Listed(out)[k][2]),
                   Path(Listed(out)[k + 1][1], Listed(out)[k + 1][2]))

\* C13: show_discarded() prints nothing when the discarded set is empty and
\* otherwise lists every member exactly once in ascending order; the images
\* listed are exactly those a select() has moved to quarantine.
C13_ListingIsCommittedSelects ==
    [][ShowCall
         => /\ discarded = {} => printed' = <<>>
            /\ discarded # {} => printed' # <<>>
            /\ ListsSorted(printed', discarded)
            /\ {Listed(printed')[k] : k \in 1..Len(Listed(printed'))}
                 = {parts(p) : p \in {q \in Images : moves[q] >= 1}}]_vars

\* C14: every load that presents a pair sets the flag to left, makes the
\* pair's first image the primary one and sets the progress to
\* (cursor + 1) / len for the cursor of the pair presented; the progress of a
\* session over a non-empty list is always above 0 and at most 1, and no call
\* lowers it.
C14_LoadResetsView ==
    /\ [](pc = "exec" /\ Len(scored_pairs) > 0
            => 0 < progress[1] /\ progress[1] <= progress[2])
    /\ [][/\ (Loaded /\ idx' < Len(scored_pairs))
                => (/\ left'
                    /\ left_image' = PairAt(idx')[1]
                    /\ image' = PairAt(idx')[1]
                    /\ progress' = <<idx' + 1, Len(scored_pairs)>>)
          /\ (pc = "exec")
                => (progress'[1] * progress[2] >= progress[1] * progress'[2])
         ]_vars

\* select() with the right image primary on the first pair has presented the
\* second pair: left primary again, progress 2 / len
C14_ResetAfterRightSelect ==
    /\ Presenting /\ idx = 1 /\ last_call = "select"
    /\ PairAt(0)[1] # PairAt(0)[2] /\ PairAt(0)[1] \in quarantine
    /\ left /\ image = PairAt(1)[1]
    /\ progress = <<2, Len(scored_pairs)>>

\* the average aspect ratio of the two shapes, as numerator and denominator
AvgArNum == shape1[2] * shape2[1] + shape2[2] * shape1[1]

AvgArDen == 2 * shape1[1] * shape2[1]

\* v is an integer nearest to num / den
Nearest(v, num, den) ==
    2 * v * den - 2 * num <= den /\ 2 * num - 2 * v * den <= den

\* v is num / den with its fraction dropped
Truncated(v, num, den) == v * den <= num /\ num < (v + 1) * den

\* C15, as claimed: the target size has height = resolution and width =
\* resolution * avg_ar rounded to the nearest integer when avg_ar < 1, and
\* otherwise width = resolution and height = resolution / avg_ar rounded to
\* the nearest integer.
C15_TargetSizeRounded ==
    pc = "resize"
      => IF AvgArNum < AvgArDen
           THEN /\ target[2] = resolution
                /\ Nearest(target[1], resolution * AvgArNum, AvgArDen)
         ELSE /\ target[1] = resolution
              /\ Nearest(target[2], resolution * AvgArDen, AvgArNum)

\* C15, amended: the same with the fraction dropped instead of rounded:
\* width = floor(resolution * avg_ar) when avg_ar < 1, and otherwise
\* height = floor(resolution / avg_ar).
C15_TargetSizeTruncated ==
    pc = "resize"
      => IF AvgArNum < AvgArDen
           THEN /\ target[2] = resolution
                /\ Truncated(target[1], resolution * AvgArNum, AvgArDen)
         ELSE /\ target[1] = resolution
              /\ Truncated(target[2], resolution * AvgArDen, AvgArNum)

\* two 4 x 3 images at resolution 5: avg_ar = 0.75, resolution * avg_ar =
\* 3.75, and the width is 3
C15_PortraitTruncated ==
    /\ pc = "resize"
    /\ shape1 = <<4, 3>> /\ shape2 = <<4, 3>> /\ resolution = 5
    /\ target = <<3, 5>>

\* C16, as claimed: every select() and every next() called while a pair is
\* presented moves the cursor forward.
C16_EveryCallAdvances ==
    [][(SelectCall \/ NextCall) => idx' > idx]_vars

\* C16, amended: every next(), and every select() whose quarantine move
\* succeeds, called while a pair is presented returns with the cursor moved
\* forward by at least one and at most to the end of the list (the skipping
\* in _load_pair stops there); a select() whose move fails leaves the cursor
\* where it is; so a session over n pairs has finished after at most n such
\* completed calls.
C16_CompletedCallsAdvance ==
    /\ [](pc = "exec"
            => /\ calls <= idx
               /\ calls <= Len(scored_pairs)
               /\ calls = Len(scored_pairs) => Finished)
    /\ [][/\ (NextCall \/ (SelectCall /\ moves' # moves))
                => (/\ idx < idx'
                    /\ idx' <= Len(scored_pairs)
                    /\ calls' = calls + 1)
          /\ (SelectCall /\ moves' = moves)
                => (idx' = idx /\ calls' = calls)
         ]_vars

\* a session over two or more pairs has finished after as many completed
\* calls as there are pairs, a select() that moved a file among them
C16_FinishedAfterLenCalls ==
    /\ Finished
    /\ Len(scored_pairs) >= 2
    /\ calls = Len(scored_pairs)
    /\ quarantine # {}

\* what the user interface shows of a BackEnd: the primary image, the two
\* annotations and the flag
Observable(s) == <<s.image, s.stats1, s.stats2, s.left>>

\* C17: while a pair is presented, load_right_image() leaves what toggling
\* the freshly loaded pair to the right leaves, load_left_image() leaves what
\* the freshly loaded (left-primary) pair shows, and either call changes
\* nothing when its side is primary already.
C17_DirectLoadAgreesWithToggle ==
    [][Presenting
         => /\ (last_call' = "load_right_image")
                 => (<<image', stats1', stats2', left'>>
                       = Observable(toggle_image(show_pair(Self, idx))))
            /\ (last_call' = "load_left_image")
                 => (<<image', stats1', stats2', left'>>
                       = Observable(show_pair(Self, idx)))
            /\ (\/ last_call' = "load_right_image" /\ ~left
                \/ last_call' = "load_left_image" /\ left)
                 => UNCHANGED <<image, stats1, stats2, left>>]_vars

====
